---- MODULE Spec2Model ----
(***************************************************************************)
(* Model of the two command-line scripts of tubular/scripts:               *)
(*   frontend_deploy.py        sync a dist directory to S3, purge the CDN  *)
(*   jenkins_trigger_build.py  trigger a Jenkins job and compare its status *)
(* One behaviour is one process invocation of one of the two scripts.      *)
(* Strings whose content matters (the bucket name) are sequences of        *)
(* one-character strings; Python values are tagged records.                *)
(***************************************************************************)
EXTENDS Integers, Sequences, FiniteSets, TLC

VARIABLES
  script,        \* which script this process runs
  pc,            \* position of the process in the script
  exit_code,     \* process exit status, NoExit while running
  events,        \* externally visible effects, in order
  args,          \* frontend_deploy: values click passes to the callback
  env_vars,      \* frontend_deploy: result of yaml.safe_load
  bucket_name,   \* frontend_deploy: env_vars.get('S3_BUCKET_NAME')
  return_code,   \* frontend_deploy: proc.wait()
  bucket,        \* state of the remote S3 bucket
  zone_name,     \* frontend_deploy: derived Cloudflare zone name
  data,          \* frontend_deploy: purge request body {'hosts': [...]}
  zone_resp,     \* what zones.get answered
  zone_id,       \* frontend_deploy: id of the zone found
  purge_resp,    \* what zones.purge_cache.post answered
  zones_get_params,   \* params={'name': ...} received by zones.get
  purge_post_args,    \* [zone_id, hosts] received by purge_cache.post
  opts,          \* jenkins_trigger_build: command line and environment
  params,        \* jenkins_trigger_build: values click passes to trigger
  elapsed,       \* seconds since jenkins.trigger_build was called
  build,         \* status of the triggered build on the server
  status,        \* value returned by jenkins.trigger_build
  outcome        \* value returned by trigger

vars == << script, pc, exit_code, events, args, env_vars, bucket_name,
           return_code, bucket, zone_name, data, zone_resp, zone_id,
           purge_resp, zones_get_params, purge_post_args, opts, params,
           elapsed, build, status, outcome >>

deployVars == << args, env_vars, bucket_name, return_code, bucket, zone_name,
                 data, zone_resp, zone_id, purge_resp, zones_get_params,
                 purge_post_args >>

triggerVars == << opts, params, elapsed, build, status, outcome >>

----
(* Bounds *)
MaxLen == 5

(* Python values *)
PyNone == [type |-> "none", s |-> <<>>, n |-> 0]
PyStr(str) == [type |-> "str", s |-> str, n |-> 0]
PyInt(i) == [type |-> "int", s |-> <<>>, n |-> i]

\* Python truth value: None, '' and 0 are false
Truthy(v) ==
  CASE v.type = "none" -> FALSE
    [] v.type = "str" -> v.s # <<>>
    [] v.type = "int" -> v.n # 0

NoExit == -1

Alphabet == {"a", "b", "."}

RECURSIVE StringsUpTo(_)
StringsUpTo(k) ==
  IF k = 0 THEN { <<>> }
  ELSE LET shorter == StringsUpTo(k - 1)
       IN shorter \cup { Append(w, c) : w \in shorter, c \in Alphabet }

ExampleBucket ==
  << "w", "w", "w", ".", "e", "x", "a", "m", "p", "l", "e", ".", "c", "o", "m" >>

BucketNames == StringsUpTo(MaxLen) \cup { ExampleBucket }

----
(* str.split('.'), list[-2:] and '.'.join(list) *)
RECURSIVE Split(_)
Split(str) ==
  IF str = <<>> THEN << <<>> >>
  ELSE LET rest == Split(Tail(str))
       IN IF Head(str) = "."
          THEN << <<>> >> \o rest
          ELSE << << Head(str) >> \o Head(rest) >> \o Tail(rest)

RECURSIVE Join(_)
Join(labels) ==
  IF Len(labels) = 0 THEN <<>>
  ELSE IF Len(labels) = 1 THEN labels[1]
  ELSE labels[1] \o << "." >> \o Join(Tail(labels))

LastOne(labels) == SubSeq(labels, Len(labels), Len(labels))

\* labels[-2:]
LastTwo(labels) ==
  IF Len(labels) <= 2 THEN labels
  ELSE SubSeq(labels, Len(labels) - 1, Len(labels))

ZoneNameOf(name) == Join(LastTwo(Split(name)))

----
(* tubular.scripts.helpers: _fail logs one line and ends the process with  *)
(* the given code; _log writes one line.                                   *)
FAIL(code, ev) ==
  /\ events' = Append(ev, "fail")
  /\ exit_code' = code
  /\ pc' = "exited"

LOG(ev, line) == Append(ev, line)

\* an exception nothing catches: traceback, interpreter exit status 1
Uncaught(ev) ==
  /\ events' = Append(ev, "traceback")
  /\ exit_code' = 1
  /\ pc' = "exited"

----
PathArgs == { PyNone, PyStr(<<>>), PyStr(<< "a" >>) }

NoArgs == [env_config_file |-> PyNone, app_name |-> PyNone,
           app_dist |-> PyNone, purge_cache |-> FALSE]

NoDoc == [kind |-> "unset", has_key |-> FALSE, value |-> PyNone]

\* what yaml.safe_load can return for a readable file
Documents ==
  { [kind |-> k, has_key |-> FALSE, value |-> PyNone] : k \in {"none", "list", "scalar", "mapping"} }
  \cup
  { [kind |-> "mapping", has_key |-> TRUE, value |-> v] :
      v \in { PyNone, PyInt(0), PyInt(7) } \cup { PyStr(w) : w \in BucketNames } }

\* dict.get('S3_BUCKET_NAME')
Get(doc) == IF doc.has_key THEN doc.value ELSE PyNone

NoOpts == [user_name |-> PyNone, user_token |-> PyNone, env_user_token |-> PyNone,
           job |-> PyNone, token |-> PyNone, env_job_token |-> PyNone,
           url |-> PyNone, cause |-> PyNone, param |-> <<>>,
           timeout |-> PyNone, expected_status |-> "absent"]

NoParams == [url |-> PyNone, user_name |-> PyNone, user_token |-> PyNone,
             job |-> PyNone, token |-> PyNone, cause |-> PyNone,
             param |-> <<>>, timeout |-> PyNone, expected_status |-> "unset"]

InitCommon ==
  /\ pc = "invoked"
  /\ exit_code = NoExit
  /\ events = <<>>
  /\ env_vars = NoDoc
  /\ bucket_name = PyNone
  /\ return_code = PyNone
  /\ bucket = "untouched"
  /\ zone_name = PyNone
  /\ data = <<>>
  /\ zone_resp = "none"
  /\ zone_id = PyNone
  /\ purge_resp = "none"
  /\ zones_get_params = PyNone
  /\ purge_post_args = << >>
  /\ params = NoParams
  /\ elapsed = 0
  /\ build = "none"
  /\ status = "unset"
  /\ outcome = "unset"

InitDeploy ==
  /\ script = "frontend_deploy"
  /\ args \in [env_config_file : PathArgs, app_name : PathArgs,
               app_dist : PathArgs, purge_cache : BOOLEAN]
  /\ opts = NoOpts
  /\ InitCommon

----
ArgsGivenButDist(a) ==
  /\ Truthy(a.env_config_file)
  /\ Truthy(a.app_name)

\* none of the three 'if not ...' tests of lines 58-63 fires
ArgsGiven(a) ==
  /\ Truthy(a.env_config_file)
  /\ Truthy(a.app_name)
  /\ Truthy(a.app_dist)

(* frontend_deploy, lines 58-63 *)
CheckArgs ==
  /\ script = "frontend_deploy"
  /\ pc = "invoked"
  /\ IF ~ArgsGiven(args) THEN FAIL(1, events)
     ELSE /\ pc' = "open"
          /\ UNCHANGED << events, exit_code >>
  /\ UNCHANGED << script, deployVars, triggerVars >>

(* lines 65-69: io.open and yaml.safe_load *)
OpenConfig ==
  /\ script = "frontend_deploy"
  /\ pc = "open"
  /\ \E file \in {"unreadable", "malformed", "readable"} :
       LET ev == Append(events, "open_config") IN
       CASE file = "unreadable" ->
              /\ FAIL(1, ev)
              /\ UNCHANGED env_vars
         [] file = "malformed" ->
              /\ Uncaught(ev)
              /\ UNCHANGED env_vars
         [] file = "readable" ->
              /\ \E doc \in Documents : env_vars' = doc
              /\ events' = ev
              /\ pc' = "get_bucket"
              /\ UNCHANGED exit_code
  /\ UNCHANGED << script, args, bucket_name, return_code, bucket, zone_name,
                  data, zone_resp, zone_id, purge_resp, zones_get_params,
                  purge_post_args, triggerVars >>

BucketNotNone(v) == v # PyNone

\* line 72: 'if not bucket_name' does not fire
BucketConfigured(v) == Truthy(v)

(* lines 71-75 *)
GetBucket ==
  /\ script = "frontend_deploy"
  /\ pc = "get_bucket"
  /\ IF env_vars.kind # "mapping"
     THEN /\ Uncaught(events)
          /\ UNCHANGED bucket_name
     ELSE /\ bucket_name' = Get(env_vars)
          /\ IF ~BucketConfigured(Get(env_vars)) THEN FAIL(1, events)
             ELSE /\ pc' = "popen"
                  /\ UNCHANGED << events, exit_code >>
  /\ UNCHANGED << script, args, env_vars, return_code, bucket, zone_name,
                  data, zone_resp, zone_id, purge_resp, zones_get_params,
                  purge_post_args, triggerVars >>

(* lines 77-80: subprocess.Popen('aws s3 sync <dist> s3://<bucket> --delete') *)
Popen ==
  /\ script = "frontend_deploy"
  /\ pc = "popen"
  /\ events' = Append(events, "popen_sync")
  /\ pc' = "wait"
  /\ UNCHANGED << script, exit_code, deployVars, triggerVars >>

SyncKilled(rc) == rc < 0

\* line 82: return_code != 0
SyncFailed(rc) == rc # 0

(* lines 81-83: proc.wait() *)
Wait ==
  /\ script = "frontend_deploy"
  /\ pc = "wait"
  /\ \E rc \in {0, 1} :
       /\ return_code' = PyInt(rc)
       /\ bucket' = IF rc = 0 THEN "mirrored" ELSE "partial"
       /\ IF SyncFailed(rc) THEN FAIL(1, events)
          ELSE /\ pc' = "purge_cache"
               /\ UNCHANGED << events, exit_code >>
  /\ UNCHANGED << script, args, env_vars, bucket_name, zone_name, data,
                  zone_resp, zone_id, purge_resp, zones_get_params,
                  purge_post_args, triggerVars >>

ShouldPurgeAlways(a) == TRUE

\* line 85: if purge_cache
ShouldPurge(a) == a.purge_cache

(* lines 85, 93-95 *)
PurgeCache ==
  /\ script = "frontend_deploy"
  /\ pc = "purge_cache"
  /\ IF ~ShouldPurge(args)
     THEN /\ pc' = "log"
          /\ UNCHANGED << events, exit_code, zone_name, data >>
     ELSE IF bucket_name.type # "str"
     THEN /\ Uncaught(events)
          /\ UNCHANGED << zone_name, data >>
     ELSE /\ zone_name' = PyStr(ZoneNameOf(bucket_name.s))
          /\ data' = << bucket_name >>
          /\ events' = Append(events, "cloudflare_client")
          /\ pc' = "zones_get"
          /\ UNCHANGED exit_code
  /\ UNCHANGED << script, args, env_vars, bucket_name, return_code, bucket,
                  zone_resp, zone_id, purge_resp, zones_get_params,
                  purge_post_args, triggerVars >>

ZoneResponses == {"api_error", "empty", "no_id", "found"}

PurgeFailureLogged(ev) ==
  /\ events' = LOG(ev, "fail")
  /\ pc' = "log"
  /\ UNCHANGED exit_code

\* lines 100-101: the except clause of the purge
PurgeFailure(ev) == FAIL(1, ev)

(* lines 96-97, 100-101 *)
ZonesGet ==
  /\ script = "frontend_deploy"
  /\ pc = "zones_get"
  /\ zones_get_params' = zone_name
  /\ \E resp \in ZoneResponses :
       LET ev == Append(events, "zones_get") IN
       /\ zone_resp' = resp
       /\ IF resp = "found"
          THEN /\ zone_id' = PyStr(<< "z" >>)
               /\ events' = ev
               /\ pc' = "purge_post"
               /\ UNCHANGED exit_code
          ELSE /\ PurgeFailure(ev)
               /\ UNCHANGED zone_id
  /\ UNCHANGED << script, args, env_vars, bucket_name, return_code, bucket,
                  zone_name, data, purge_resp, purge_post_args, triggerVars >>

(* lines 98-101 *)
PurgePost ==
  /\ script = "frontend_deploy"
  /\ pc = "purge_post"
  /\ purge_post_args' = << zone_id, data >>
  /\ \E resp \in {"api_error", "ok"} :
       LET ev == Append(events, "purge_post") IN
       /\ purge_resp' = resp
       /\ IF resp = "ok"
          THEN /\ events' = LOG(ev, "log_purged")
               /\ pc' = "log"
               /\ UNCHANGED exit_code
          ELSE PurgeFailure(ev)
  /\ UNCHANGED << script, args, env_vars, bucket_name, return_code, bucket,
                  zone_name, data, zone_resp, zone_id, zones_get_params,
                  triggerVars >>

(* line 103 *)
LogDeployed ==
  /\ script = "frontend_deploy"
  /\ pc = "log"
  /\ events' = LOG(events, "log_deployed")
  /\ pc' = "returned"
  /\ UNCHANGED << script, exit_code, deployVars, triggerVars >>

(* click standalone mode: the callback's return value is dropped and the   *)
(* process exits with status 0                                              *)
ClickExit ==
  /\ pc = "returned"
  /\ exit_code' = 0
  /\ pc' = "exited"
  /\ UNCHANGED << script, events, deployVars, triggerVars >>

NextDeploy ==
  \/ CheckArgs
  \/ OpenConfig
  \/ GetBucket
  \/ Popen
  \/ Wait
  \/ PurgeCache
  \/ ZonesGet
  \/ PurgePost
  \/ LogDeployed

----
(* jenkins_trigger_build *)
STATUS_FAIL == "STATUS_FAIL"
STATUS_ERROR == "STATUS_ERROR"
STATUS_ABORTED == "STATUS_ABORTED"
STATUS_REGRESSION == "STATUS_REGRESSION"
STATUS_SUCCESS == "STATUS_SUCCESS"

\* click.Choice of --expected-status
ExpectedChoices ==
  { STATUS_FAIL, STATUS_ERROR, STATUS_ABORTED, STATUS_REGRESSION, STATUS_SUCCESS }

\* the statuses at which polling stops
TerminalStatuses ==
  { STATUS_SUCCESS, STATUS_FAIL, STATUS_ERROR, STATUS_ABORTED, STATUS_REGRESSION }

\* the distinguished result of a poll that ran out of time
TIMEOUT == "TIMEOUT"

DefaultTimeout == 1800
DefaultUrl == PyStr(<< "d" >>)

\* seconds slept between two polls
PollInterval == 600

Given == { PyNone, PyStr(<< "a" >>) }
EnvValues == { PyNone, PyStr(<<>>), PyStr(<< "b" >>) }
TimeoutArgs == { PyNone, PyInt(2 * PollInterval) }
ParamArgs == { <<>>, << << "k", "v" >> >> }

InitTrigger ==
  /\ script = "jenkins_trigger_build"
  /\ opts \in [user_name : Given, user_token : Given, env_user_token : EnvValues,
               job : Given, token : Given, env_job_token : EnvValues,
               url : Given, cause : Given, param : ParamArgs,
               timeout : TimeoutArgs,
               expected_status : {"absent"} \cup ExpectedChoices]
  /\ args = NoArgs
  /\ InitCommon

FlagOnly(flag, env) == flag

\* click: the flag if given, else a non-empty environment variable
FromEnv(flag, env) ==
  IF flag # PyNone THEN flag
  ELSE IF Truthy(env) THEN env
  ELSE PyNone

\* click: the flag if given, else the declared default
OrDefault(flag, default) == IF flag # PyNone THEN flag ELSE default

\* exit status of click.UsageError
UsageExitCode == 2

(* lines 20-86: click parses the options before calling trigger *)
ParseOptions ==
  /\ script = "jenkins_trigger_build"
  /\ pc = "invoked"
  /\ LET user_token == FromEnv(opts.user_token, opts.env_user_token)
         token == FromEnv(opts.token, opts.env_job_token)
     IN IF \/ opts.user_name = PyNone
           \/ user_token = PyNone
           \/ opts.job = PyNone
           \/ token = PyNone
        THEN /\ events' = Append(events, "usage_error")
             /\ exit_code' = UsageExitCode
             /\ pc' = "exited"
             /\ UNCHANGED params
        ELSE /\ params' = [url |-> OrDefault(opts.url, DefaultUrl),
                           user_name |-> opts.user_name,
                           user_token |-> user_token,
                           job |-> opts.job,
                           token |-> token,
                           cause |-> opts.cause,
                           param |-> opts.param,
                           timeout |-> OrDefault(opts.timeout, PyInt(DefaultTimeout)),
                           expected_status |->
                             IF opts.expected_status = "absent" THEN STATUS_SUCCESS
                             ELSE opts.expected_status]
             /\ pc' = "call"
             /\ UNCHANGED << events, exit_code >>
  /\ UNCHANGED << script, deployVars, opts, elapsed, build, status, outcome >>

(* line 89: jenkins.trigger_build submits the job ... *)
TriggerBuild ==
  /\ script = "jenkins_trigger_build"
  /\ pc = "call"
  /\ \E accepted \in BOOLEAN :
       LET ev == Append(events, "trigger_build") IN
       IF accepted
       THEN /\ events' = ev
            /\ build' = "QUEUED"
            /\ pc' = "polling"
            /\ UNCHANGED exit_code
       ELSE /\ Uncaught(ev)
            /\ UNCHANGED build
  /\ elapsed' = 0
  /\ UNCHANGED << script, deployVars, opts, params, status, outcome >>

(* ... the build advances on the server ... *)
BuildProgress ==
  /\ script = "jenkins_trigger_build"
  /\ pc = "polling"
  /\ \/ /\ build = "QUEUED"
        /\ build' = "RUNNING"
     \/ /\ build = "RUNNING"
        /\ build' \in TerminalStatuses
  /\ UNCHANGED << script, pc, exit_code, events, deployVars, opts, params,
                  elapsed, status, outcome >>

(* ... and trigger_build polls it until a terminal status or the timeout *)
Poll ==
  /\ script = "jenkins_trigger_build"
  /\ pc = "polling"
  /\ IF build \in TerminalStatuses
     THEN /\ status' = build
          /\ pc' = "return"
          /\ UNCHANGED elapsed
     ELSE /\ elapsed' = elapsed + PollInterval
          /\ IF elapsed + PollInterval > params.timeout.n
             THEN /\ status' = TIMEOUT
                  /\ pc' = "return"
             ELSE UNCHANGED << status, pc >>
  /\ UNCHANGED << script, exit_code, events, deployVars, opts, params, build,
                  outcome >>

PyBool(b) == IF b THEN "True" ELSE "False"

StatusDiffers(observed, expected) == observed # expected

StatusIsSuccess(observed, expected) == observed = STATUS_SUCCESS

\* status == expected_status
StatusEquals(observed, expected) == observed = expected

(* line 90 *)
Return ==
  /\ script = "jenkins_trigger_build"
  /\ pc = "return"
  /\ outcome' = PyBool(StatusEquals(status, params.expected_status))
  /\ pc' = "returned"
  /\ UNCHANGED << script, exit_code, events, deployVars, opts, params,
                  elapsed, build, status >>

NextTrigger ==
  \/ ParseOptions
  \/ TriggerBuild
  \/ BuildProgress
  \/ Poll
  \/ Return

Init == InitDeploy \/ InitTrigger

Next == NextDeploy \/ NextTrigger \/ ClickExit

Spec == Init /\ [][Next]_vars
----
(* Properties *)
Has(e) == \E i \in 1..Len(events) : events[i] = e

Count(e) == Cardinality({ i \in 1..Len(events) : events[i] = e })

\* position of the first occurrence of e, 0 when there is none
First(e) ==
  IF Has(e) THEN CHOOSE i \in 1..Len(events) :
                   /\ events[i] = e
                   /\ \A j \in 1..(i - 1) : events[j] # e
  ELSE 0

Absent(v) == v = PyNone \/ v = PyStr(<<>>)

CdnEvents == {"cloudflare_client", "zones_get", "purge_post"}

NoCdnCall == \A e \in CdnEvents : ~Has(e)

Deploying == script = "frontend_deploy"

Triggering == script = "jenkins_trigger_build"

\* C1: when --env-config-file, --app-name or --app-dist is missing or empty,
\* the process ends with exit code 1 and the config file is never opened, the
\* sync subprocess never started and no CloudFlare call made.
C1_MissingArgumentFails ==
  ( /\ Deploying
    /\ \/ Absent(args.env_config_file)
       \/ Absent(args.app_name)
       \/ Absent(args.app_dist) )
  => /\ ~Has("open_config")
     /\ ~Has("popen_sync")
     /\ NoCdnCall
     /\ pc \in {"invoked", "exited"}
     /\ pc = "exited" => exit_code = 1

C1_Witness ==
  /\ Deploying
  /\ ~Absent(args.env_config_file)
  /\ ~Absent(args.app_name)
  /\ Absent(args.app_dist)
  /\ pc = "exited"
  /\ exit_code = 1

\* the parsed document gives no usable S3_BUCKET_NAME
LacksBucketName(doc) ==
  \/ doc.kind \in {"none", "list", "scalar"}
  \/ doc.kind = "mapping" /\ ~doc.has_key
  \/ doc.kind = "mapping" /\ doc.has_key /\ doc.value \in {PyNone, PyStr(<<>>)}

\* C2: a readable config file whose content has no S3_BUCKET_NAME (key absent,
\* empty value, empty document, not a mapping) ends the process with exit
\* code 1 and the sync command is never invoked.
C2_NoBucketNameFails ==
  ( /\ Deploying
    /\ env_vars # NoDoc
    /\ LacksBucketName(env_vars) )
  => /\ ~Has("popen_sync")
     /\ pc \in {"get_bucket", "exited"}
     /\ pc = "exited" => exit_code = 1

C2_Witness ==
  /\ Deploying
  /\ env_vars.kind = "mapping"
  /\ env_vars.has_key
  /\ env_vars.value = PyStr(<<>>)
  /\ pc = "exited"
  /\ exit_code = 1
  /\ Has("open_config")

\* C3: when the sync exited with status 0 and --purge-cache is unset, the
\* process finishes with exit code 0 after the final success line, without
\* creating a CloudFlare client or issuing a zone lookup or purge.
C3_NoPurgeNoCdn ==
  ( /\ Deploying
    /\ return_code = PyInt(0)
    /\ ~args.purge_cache )
  => /\ NoCdnCall
     /\ ~Has("fail")
     /\ ~Has("traceback")
     /\ pc \in {"purge_cache", "log", "returned", "exited"}
     /\ pc \in {"returned", "exited"} => Has("log_deployed")
     /\ pc = "exited" => exit_code = 0

C3_Witness ==
  /\ Deploying
  /\ return_code = PyInt(0)
  /\ ~args.purge_cache
  /\ pc = "exited"
  /\ exit_code = 0
  /\ Has("log_deployed")

DotPositions(str) == { i \in 1..Len(str) : str[i] = "." }

Max(S) == CHOOSE m \in S : \A x \in S : x <= m

\* the part of str after its second-to-last dot, str itself with fewer dots
AfterSecondLastDot(str) ==
  LET dots == DotPositions(str)
  IN IF Cardinality(dots) < 2 THEN str
     ELSE SubSeq(str, Max(dots \ {Max(dots)}) + 1, Len(str))

ExampleZone == << "e", "x", "a", "m", "p", "l", "e", ".", "c", "o", "m" >>

\* C4: with --purge-cache the zone name given to the zone lookup is the last
\* two dot-separated labels of the bucket name ("www.example.com" gives
\* "example.com", fewer than two dots leaves the name unchanged), and the
\* purge is scoped to the host list holding exactly the bucket name.
C4_ZoneNameIsLastTwoLabels ==
  Deploying =>
    /\ Has("zones_get") =>
         /\ zones_get_params = PyStr(AfterSecondLastDot(bucket_name.s))
         /\ bucket_name.s = ExampleBucket => zones_get_params.s = ExampleZone
         /\ Cardinality(DotPositions(bucket_name.s)) < 2
              => zones_get_params = bucket_name
    /\ Has("purge_post") =>
         /\ Len(purge_post_args) = 2
         /\ purge_post_args[2] = << bucket_name >>

C4_Witness ==
  /\ Deploying
  /\ Has("purge_post")
  /\ bucket_name.s = << "a", ".", "b", ".", "a" >>
  /\ zones_get_params.s = << "b", ".", "a" >>

PurgeWentWrong ==
  \/ zone_resp \in {"api_error", "empty", "no_id"}
  \/ purge_resp = "api_error"

\* C5: with --purge-cache and a sync that exited 0, a zone lookup that finds
\* no zone, returns an entry without id, or an API error of either CDN call
\* ends the process with exit code 1, without the purge success line and
\* without the final success line, and the completed sync is left as it is.
C5_PurgeFailureFails ==
  ( /\ Deploying
    /\ PurgeWentWrong )
  => /\ pc = "exited"
     /\ exit_code = 1
     /\ ~Has("log_purged")
     /\ ~Has("log_deployed")
     /\ return_code = PyInt(0)
     /\ bucket = "mirrored"
     /\ Count("popen_sync") = 1
     /\ events[Len(events)] = "fail"

C5_Witness ==
  /\ Deploying
  /\ zone_resp = "empty"
  /\ pc = "exited"
  /\ exit_code = 1
  /\ bucket = "mirrored"

\* C6: the outcome reported by trigger is true exactly when the status
\* returned by jenkins.trigger_build equals the expected status; SUCCESS with
\* the default expected status is true, another terminal status is false.
C6_OutcomeIsEquality ==
  ( /\ Triggering
    /\ outcome # "unset" )
  => /\ outcome = "True" <=> status = params.expected_status
     /\ outcome \in {"True", "False"}
     /\ (status = STATUS_SUCCESS /\ opts.expected_status = "absent")
          => outcome = "True"
     /\ (status \in TerminalStatuses /\ status # params.expected_status)
          => outcome = "False"

C6_Witness ==
  /\ Triggering
  /\ status = STATUS_ABORTED
  /\ opts.expected_status = STATUS_ABORTED
  /\ outcome = "True"

\* C7: the process result of jenkins_trigger_build reflects the comparison of
\* the observed with the expected status: exit status 0 exactly when they
\* are equal.
C7_ExitReflectsComparison ==
  ( /\ Triggering
    /\ pc = "exited"
    /\ outcome # "unset" )
  => (exit_code = 0 <=> outcome = "True")

\* C8: a build that reaches no terminal status before the timeout (default
\* 1800 seconds from the trigger call) gives a timeout result that is none of
\* the terminal statuses and is reported as not equal to the expected status,
\* whichever of the five it is.
C8_TimeoutIsDistinct ==
  Triggering =>
    /\ TIMEOUT \notin TerminalStatuses
    /\ (status # "unset" /\ build \notin TerminalStatuses) => status = TIMEOUT
    /\ status = TIMEOUT =>
         /\ elapsed > params.timeout.n
         /\ opts.timeout = PyNone => elapsed > 1800
         /\ params.expected_status \in TerminalStatuses
         /\ outcome # "True"
         /\ pc \in {"returned", "exited"} => outcome = "False"

C8_Witness ==
  /\ Triggering
  /\ status = TIMEOUT
  /\ opts.timeout = PyNone
  /\ build = "RUNNING"
  /\ params.expected_status = STATUS_REGRESSION
  /\ outcome = "False"

\* a required option is given neither as a flag nor through its variable
RequiredAbsent ==
  \/ opts.user_name = PyNone
  \/ opts.job = PyNone
  \/ opts.user_token = PyNone /\ Absent(opts.env_user_token)
  \/ opts.token = PyNone /\ Absent(opts.env_job_token)

DefaultsTaken ==
  /\ opts.param = <<>> => params.param = <<>>
  /\ opts.timeout = PyNone => params.timeout = PyInt(1800)
  /\ opts.expected_status = "absent" => params.expected_status = STATUS_SUCCESS
  /\ opts.cause = PyNone => params.cause = PyNone
  /\ opts.url = PyNone => params.url # PyNone

Failed == Has("fail") \/ Has("traceback")

\* C10: the steps of frontend_deploy are ordered and fail-fast: the sync starts
\* only after the arguments were present, the config read and a bucket name
\* found; a CDN call only after a sync that exited 0 and only with
\* --purge-cache; a non-zero sync ends the process with exit code 1 without
\* a CDN call; the final success line only when every step succeeded.
C10_OrderedFailFast ==
  Deploying =>
    /\ Has("popen_sync") =>
         /\ ~Absent(args.env_config_file)
         /\ ~Absent(args.app_name)
         /\ ~Absent(args.app_dist)
         /\ First("open_config") > 0
         /\ First("open_config") < First("popen_sync")
         /\ env_vars.kind = "mapping"
         /\ bucket_name # PyNone
         /\ bucket_name # PyStr(<<>>)
    /\ ~NoCdnCall =>
         /\ return_code = PyInt(0)
         /\ args.purge_cache
         /\ \A e \in CdnEvents : Has(e) => First("popen_sync") < First(e)
    /\ (return_code.type = "int" /\ return_code.n # 0) =>
         /\ pc = "exited"
         /\ exit_code = 1
         /\ NoCdnCall
    /\ Has("log_deployed") =>
         /\ ~Failed
         /\ return_code = PyInt(0)
         /\ events[Len(events)] = "log_deployed"
         /\ args.purge_cache =>
              /\ zone_resp = "found"
              /\ purge_resp = "ok"
              /\ Has("log_purged")
    /\ Failed =>
         /\ pc = "exited"
         /\ exit_code = 1
         /\ events[Len(events)] \in {"fail", "traceback"}
         /\ Count("fail") + Count("traceback") = 1

C10_Witness ==
  /\ Deploying
  /\ args.purge_cache
  /\ return_code = PyInt(1)
  /\ pc = "exited"
  /\ exit_code = 1
  /\ NoCdnCall
====
